---- MODULE Spec2Model ----
(***************************************************************************)
(* Model of the Azure AI Studio request generators: one generator instance *)
(* (BaseGenerator state), the two concrete generators of                   *)
(* aistudio_requests/generate.py, the request schema validators and the    *)
(* retrying transport BaseGenerator._request_url.  Coroutines are split at *)
(* their await points: everything between two awaits is one atomic step of *)
(* the event loop.                                                         *)
(***************************************************************************)
EXTENDS Integers, Sequences, FiniteSets, TLC

\* ------------------------------------------------------------------ bounds
\* attempts (http_client.request calls) of one call of _request_url
MaxAttempts == 4
\* largest value the backoff counter takes
MaxWait == 4
\* The depth of nested _request_url frames at which the interpreter raises
\* RecursionError. CPython's limit is 1000 frames by default
\* (sys.getrecursionlimit()); the model scales it down and keeps it above
\* MaxAttempts.
RecursionLimit == 6

\* ------------------------------------------------------- program constants
InitialWaitingTime == 1
NetworkErrorSleepMs == 500
UnavailableSleepMs == 60000
MaxStopWords == 4
RangeStart == 1
RangeStop == 128

\* ------------------------------------------------------------ option values
None == <<>>
Some(x) == <<x>>
IsNone(o) == o = <<>>
Val(o) == o[1]

\* ------------------------------------------------------ JSON / Python values
\* Every value is tagged with its Python type so that a method applied to the
\* wrong type raises, as it does in Python.
JNull == [t |-> "null"]
JStr(s) == [t |-> "str", v |-> s]
JNum(i) == [t |-> "num", v |-> i]
JList(l) == [t |-> "list", v |-> l]
JObj(f) == [t |-> "obj", v |-> f]
EmptyMap == [k \in {} |-> JNull]
EmptyObj == JObj(EmptyMap)

\* Results of a Python expression: a value, or a raised exception.
Ok(v) == [ok |-> TRUE, v |-> v]
Raise(e) == [ok |-> FALSE, exc |-> e]

\* x.get(key, default)
PyGet(x, key, default) ==
    IF x.t # "obj" THEN Raise("AttributeError")
    ELSE IF key \in DOMAIN x.v THEN Ok(x.v[key]) ELSE Ok(default)

\* x[0], for the value types the response bodies below put in that position
PyIndex0(x) ==
    CASE x.t = "list" -> IF Len(x.v) = 0 THEN Raise("IndexError") ELSE Ok(x.v[1])
      [] x.t = "obj" -> Raise("KeyError")
      [] OTHER -> Raise("TypeError")

\* f applied to the value of r, an exception of r passed on
Then(r, f(_)) == IF r.ok THEN f(r.v) ELSE r

\* ------------------------------------------------------------- schemas.py
\* range(a, b) of Python: a, a+1, ..., b-1
PyRange(a, b) == a .. (b - 1)

\* Variant: the limit of the stop words is off by one.
validate_stop_words_raises_OffByOne(value) == Len(value) > MaxStopWords + 1

\* AzureAIRequest.validate_stop_words: TRUE when the validator raises
validate_stop_words_raises(value) == Len(value) > MaxStopWords

\* AzureAIRequest.validate_max_completion: TRUE when the validator raises
validate_max_completion_raises(value) == ~(value \in PyRange(RangeStart, RangeStop))

\* A parameter map is a record of optional fields: None when the caller did
\* not supply the key.
NVals == {0, 1, 128, 129}
StopWord == "stop"
StopLists == {[i \in 1..k |-> StopWord] : k \in {MaxStopWords, MaxStopWords + 1}}
\* temperature is None when the key is not supplied, Some(None) when it is
\* supplied as None and Some(Some(t)) when it is supplied with the number t.
SuppliedTokens == 2000
WideParamMaps == [n : {None} \cup {Some(v) : v \in NVals},
                  stop : {None} \cup {Some(l) : l \in StopLists},
                  temperature : {None, Some(None), Some(Some(0))},
                  max_tokens : {None, Some(SuppliedTokens)}]
\* the parameter maps that supply n and stop only
ParamMaps == {p \in WideParamMaps : IsNone(p.temperature) /\ IsNone(p.max_tokens)}

\* AzureAIRequest(messages=..., **parameters): the names of the fields whose
\* validator raises; pydantic raises ValidationError when the set is not empty.
ValidationErrors(parameters) ==
    {f \in {"stop"} : ~IsNone(parameters.stop)
                        /\ validate_stop_words_raises(Val(parameters.stop))}
    \cup
    {f \in {"n"} : ~IsNone(parameters.n)
                     /\ validate_max_completion_raises(Val(parameters.n))}

\* Variant: the content block carries the text without its type.
AzureAIMessage_NoType(role, text) ==
    [role |-> role, content |-> <<[text |-> text]>>]

\* AzureAIMessage(role=..., content=[{"type": "text", "text": text}])
AzureAIMessage(role, text) ==
    [role |-> role, content |-> <<[type |-> "text", text |-> text]>>]

\* AzureAITool(type="function", function=_func)
AzureAITool(func) == [type |-> "function", function |-> func]

\* The fields of AzureAIRequest and their defaults; None is Python's None.
FieldNames ==
    {"messages", "temperature", "top_p", "n", "user", "max_tokens", "stream",
     "presence_penalty", "frequency_penalty", "stop", "logit_bias",
     "response_format", "dataSources", "seed", "tools"}
DefaultMaxTokens == 4096
FieldDefault(f) ==
    CASE f = "max_tokens" -> Some(DefaultMaxTokens)
      [] f = "stream" -> Some(FALSE)
      [] f = "response_format" -> Some("text")
      [] OTHER -> None

\* **parameters: the keyword arguments of the supplied keys
ParamKwargs(parameters) ==
    [f \in {g \in DOMAIN parameters : ~IsNone(parameters[g])} |->
        IF f = "temperature" THEN Val(parameters[f]) ELSE parameters[f]]

\* AzureAIRequest(messages=messages, [tools=tools,] **parameters): the value
\* of every field and the set of the fields the constructor was given
\* (pydantic's model_fields_set); tools is None when it is not passed.
AzureAIRequest(messages, tools, parameters) ==
    LET kwargs == ("messages" :> Some(messages))
                  @@ (IF IsNone(tools) THEN EmptyMap ELSE ("tools" :> tools))
                  @@ ParamKwargs(parameters)
    IN  [fields_set |-> DOMAIN kwargs,
         value |-> [f \in FieldNames |->
                       IF f \in DOMAIN kwargs THEN kwargs[f] ELSE FieldDefault(f)]]

\* Variant: model_dump(exclude_none=True), the defaults are emitted too.
ModelDump_WithDefaults(messages, tools, parameters) ==
    LET obj == AzureAIRequest(messages, tools, parameters)
    IN  [f \in {g \in FieldNames : ~IsNone(obj.value[g])} |-> Val(obj.value[f])]

\* data.model_dump(exclude_unset=True, exclude_none=True): the fields passed to
\* the constructor with a value other than None.
ModelDump(messages, tools, parameters) ==
    LET obj == AzureAIRequest(messages, tools, parameters)
    IN  [f \in {g \in obj.fields_set : ~IsNone(obj.value[g])} |-> Val(obj.value[f])]

\* ----------------------------------------------- response interpretation
\* json.loads(x): the JSON texts that occur in the response bodies below
ArgsText == "{\"a\":1,\"b\":2}"
ListText == "[1]"
BadText == "oops"
JsonLoads(x) ==
    IF x.t # "str" THEN Raise("TypeError")
    ELSE CASE x.v = ArgsText -> Ok(JObj(("a" :> JNum(1)) @@ ("b" :> JNum(2))))
           [] x.v = ListText -> Ok(JList(<<JNum(1)>>))
           [] OTHER -> Raise("JSONDecodeError")

\* The argument of logger.info after the transport returned:
\* {"model": response.get("model", ""), **response.get("usage", {})}
Telemetry(response) ==
    LET model == PyGet(response, "model", JStr(""))
        usage == PyGet(response, "usage", EmptyObj)
    IN  IF ~model.ok THEN model
        ELSE IF ~usage.ok THEN usage
        ELSE IF usage.v.t # "obj" THEN Raise("TypeError")
        ELSE Ok(JObj(("model" :> model.v) @@ usage.v.v))

\* response.get("choices", [{}])[0].get("message", {}).get("content", "")
PlainContent(response) ==
    Then(Then(Then(PyGet(response, "choices", JList(<<EmptyObj>>)),
                   PyIndex0),
              LAMBDA c : PyGet(c, "message", EmptyObj)),
         LAMBDA m : PyGet(m, "content", JStr("")))

\* PromptGenerator.send_request after the transport returned `response`
InterpretPlain(response, complete_response) ==
    LET logged == Telemetry(response)
    IN  IF ~logged.ok THEN logged
        ELSE IF ~complete_response THEN PlainContent(response)
        ELSE Ok(response)

\* response.get("choices", [])[0].get("message", {}).get("tool_calls", [])
ToolCalls(response) ==
    Then(Then(Then(PyGet(response, "choices", JList(<<>>)),
                   PyIndex0),
              LAMBDA c : PyGet(c, "message", EmptyObj)),
         LAMBDA m : PyGet(m, "tool_calls", JList(<<>>)))

\* json.loads(tool_calls[0].get("function", {}).get("arguments", {}))
DecodeArguments(tool_calls) ==
    Then(Then(Then(PyIndex0(tool_calls),
                   LAMBDA t : PyGet(t, "function", EmptyObj)),
              LAMBDA f : PyGet(f, "arguments", EmptyObj)),
         JsonLoads)

\* FunctionCallingGenerator.send_request after the transport returned `response`
InterpretFunction(response, complete_response) ==
    LET logged == Telemetry(response)
    IN  IF ~logged.ok THEN logged
        ELSE IF complete_response THEN Ok(response)
        ELSE Then(ToolCalls(response), DecodeArguments)

\* Response bodies the service may answer a 2xx with (response.json()).
Choice(message) == JObj("choices" :> JList(<<JObj("message" :> message)>>))
ToolCall(function) == JObj("tool_calls" :> JList(<<JObj("function" :> function)>>))
Bodies ==
    { EmptyObj,
      JObj("choices" :> JList(<<>>)),
      JObj("choices" :> JList(<<EmptyObj>>)),
      Choice(EmptyObj),
      Choice(JObj("content" :> JNull)),
      JObj(Choice(JObj("content" :> JStr("42"))).v
           @@ ("model" :> JStr("gpt-4o"))
           @@ ("usage" :> JObj("total_tokens" :> JNum(7)))),
      JObj(Choice(JObj("content" :> JStr("42"))).v @@ ("usage" :> JNull)),
      Choice(JObj("tool_calls" :> JList(<<>>))),
      Choice(ToolCall(EmptyObj)),
      Choice(ToolCall(JObj("arguments" :> JStr(ArgsText)))),
      Choice(ToolCall(JObj("arguments" :> JStr(ListText)))),
      Choice(ToolCall(JObj("arguments" :> JStr(BadText)))),
      JObj(Choice(ToolCall(JObj("arguments" :> JStr(ArgsText)))).v
           @@ ("usage" :> JNull)),
      JObj("choices" :> JList(<<
          JObj("message" :> JObj("tool_calls" :> JList(<<
              JObj("function" :> JObj("arguments" :> JStr(ArgsText))),
              JObj("function" :> JObj("arguments" :> JStr(ListText))) >>))),
          JObj("message" :> JObj("tool_calls" :> JList(<<
              JObj("function" :> JObj("arguments" :> JStr(BadText))) >>))) >>)) }

\* ------------------------------------------------------- generator instance
DEFAULT_SYSTEM_MESSAGE == "You are a intelligent assistant."
SystemMessages == {DEFAULT_SYSTEM_MESSAGE, "S"}
\* Template(t).safe_substitute(functions=...): the default message holds no
\* $-placeholder, so the substitution leaves the text as it is.
SafeSubstitute(t) == t
Prompt == "U"
Url == "https://endpoint"
Key == "key"
\* lists of AzureAIFunction the caller may assign to `functions`
FunctionLists == {<<>>, <<[name |-> "sum"]>>}
Slots == {"a", "b"}
Statuses == {200, 201, 400, 500, 429, 503}

VARIABLES
    kind,            \* the concrete class of the instance: "plain" or "function"
    waiting_time,    \* BaseGenerator.waiting_time
    system_message,  \* BaseGenerator.__system_message
    functions,       \* FunctionCallingGenerator._functions (None or a list)
    calls,           \* the send_request coroutines, one per slot
    retries,         \* history: 503/429 retries since the last 2xx response
    seen2xx,         \* history: a 2xx response was received on the instance
    sm_op,           \* history: the last of construction, set or delete of
                     \* system_message, and send_request
    http             \* the httpx.AsyncClient objects the instance has created
                     \* and which of them self.http_client refers to

vars == <<kind, waiting_time, system_message, functions, calls, retries, seen2xx,
          sm_op, http>>

\* The two packages of generators: aistudio_requests/generate.py and
\* src/generate.py.
Packages == {"aistudio_requests", "src"}

\* BaseGenerator.__init__: `self.http_client = httpx.AsyncClient(timeout=20000)`
BaseInit == [clients |-> <<"open">>, http_client |-> 1, closed |-> FALSE]

\* Variant: the subclass constructor creates no client of its own.
SubclassInit_Inherit(package, h) == h

\* The constructor of the concrete class. The aistudio_requests generators
\* inherit or delegate to BaseGenerator.__init__; PromptGenerator.__init__ of
\* src/generate.py calls super().__init__ and then assigns a new AsyncClient
\* to self.http_client.
SubclassInit(package, h) ==
    IF package = "src"
    THEN [h EXCEPT !.clients = Append(@, "open"),
                   !.http_client = Len(h.clients) + 1]
    ELSE h

Construct(package) == SubclassInit(package, BaseInit)

NoParameters == [n |-> None, stop |-> None, temperature |-> None, max_tokens |-> None]
IdleCall ==
    [pc |-> "idle", parameters |-> NoParameters, complete_response |-> FALSE,
     stage |-> "", data |-> None, reqs |-> <<>>, log |-> <<>>,
     incr |-> FALSE, resp |-> None, ret |-> None, result |-> None,
     error |-> "", w0 |-> 0, r0 |-> 0, s0 |-> FALSE,
     via |-> "send_request", streaming |-> FALSE, alone |-> TRUE, f0 |-> None,
     steps |-> <<>>, items |-> <<>>, latest |-> FALSE]

InFlight(c) == calls[c].pc \in {"request", "sleep"}

\* History: `latest` marks the call that ended most recently, by returning
\* or by raising. A step that ends call c, `cs` being the calls after the
\* step, moves the mark to c.
Ended(call) == call.pc \in {"done", "raised"}
Settle(c, cs) ==
    IF Ended(cs[c]) /\ ~Ended(calls[c])
    THEN [d \in Slots |-> [cs[d] EXCEPT !.latest = (d = c)]]
    ELSE cs

\* an operation on the system_message property, `arg` the value assigned, or
\* for send_request the value the property had when it was invoked
SmOp(op, arg) == [op |-> op, arg |-> arg]

\* BaseGenerator.__init__ and FunctionCallingGenerator.__init__
Init ==
    /\ kind \in {"plain", "function"}
    /\ waiting_time = InitialWaitingTime
    /\ system_message = DEFAULT_SYSTEM_MESSAGE
    /\ functions = None
    /\ calls = [c \in Slots |-> IdleCall]
    /\ retries = 0
    /\ seen2xx = FALSE
    /\ sm_op = SmOp("new", "")
    /\ http = Construct("aistudio_requests")

\* BaseGenerator.headers
Headers == [content_type |-> "application/json", api_key |-> Key]

\* request_param of _request_url: "json" is added only `if data:`
RequestParam(method, url, data) ==
    [method |-> method, url |-> url, headers |-> Headers,
     json |-> IF ~IsNone(data) /\ DOMAIN Val(data) # {} THEN data ELSE None]

\* floor of the square root, by bisection
RECURSIVE Bisect(_, _, _)
Bisect(n, lo, hi) ==
    IF lo >= hi THEN lo
    ELSE LET mid == (lo + hi + 1) \div 2
         IN  IF mid * mid <= n THEN Bisect(n, mid, hi) ELSE Bisect(n, lo, mid - 1)
ISqrt(n) == Bisect(n, 0, 46340)

\* waiting_time**1.5, in whole milliseconds
Pow15Ms(w) == ISqrt(w * w * w * 1000000)

\* response.raise_for_status() does not raise
IsSuccess(code) == code \in 200..299

\* Variant: every 5xx status is taken for "service unavailable" and retried.
StatusErrorSleep_Retry5xx(code, wt) ==
    CASE code >= 500 -> Some(UnavailableSleepMs)
      [] code = 429 -> Some(Pow15Ms(wt))
      [] OTHER -> None

\* Variant: the 503 branch sleeps as the network-error branch does.
StatusErrorSleep_Short503(code, wt) ==
    CASE code = 503 -> Some(NetworkErrorSleepMs)
      [] code = 429 -> Some(Pow15Ms(wt))
      [] OTHER -> None

\* The except httpx.HTTPStatusError branch: the sleep taken before the retry,
\* None when the error is raised to the caller.
StatusErrorSleep(code, wt) ==
    CASE code = 503 -> Some(UnavailableSleepMs)
      [] code = 429 -> Some(Pow15Ms(wt))
      [] OTHER -> None

\* Variant: a successful response leaves the counter as it is.
ResetWaitingTime_Kept(wt) == wt

\* self.waiting_time = 0 on a successful response
ResetWaitingTime(wt) == 0

\* Variant: the counter stops at 2.
IncrementWaitingTime_Capped(wt) == IF wt < 2 THEN wt + 1 ELSE wt

\* Variant: the counter is doubled instead of incremented.
IncrementWaitingTime_Double(wt) == wt + wt

\* Variant: the increment is missing.
IncrementWaitingTime_Skip(wt) == wt

\* self.waiting_time += 1 after the sleep of a 503 or 429
IncrementWaitingTime(wt) == wt + 1

\* ----------------------------------------------------------- configuration
\* The caller configures the instance between its calls.
Quiet == \A c \in Slots : calls[c].pc = "idle"

\* system_message getter: `return self.__system_message`
SystemMessageGet == system_message

\* system_message setter
SetSystemMessage(m) ==
    /\ Quiet
    /\ system_message' = m
    /\ sm_op' = SmOp("set", m)
    /\ UNCHANGED <<kind, waiting_time, functions, calls, retries, seen2xx, http>>

\* Variant: the deleter leaves the message as it is.
DeletedSystemMessage_Kept == system_message

\* the value the deleter assigns: `self.__system_message = DEFAULT_SYSTEM_MESSAGE`
DeletedSystemMessage == DEFAULT_SYSTEM_MESSAGE

\* system_message deleter
DelSystemMessage ==
    /\ Quiet
    /\ system_message' = DeletedSystemMessage
    /\ sm_op' = SmOp("del", "")
    /\ UNCHANGED <<kind, waiting_time, functions, calls, retries, seen2xx, http>>

\* functions setter
SetFunctions(l) ==
    /\ Quiet
    /\ kind = "function"
    /\ functions' = Some(l)
    /\ UNCHANGED <<kind, waiting_time, system_message, calls, retries, seen2xx, sm_op, http>>

\* functions deleter
DelFunctions ==
    /\ Quiet
    /\ kind = "function"
    /\ functions' = None
    /\ UNCHANGED <<kind, waiting_time, system_message, calls, retries, seen2xx, sm_op, http>>

\* ------------------------------------------------------------ send_request
\* `if self.functions is None: raise AttributeError`, the property getter
\* raising first
FunctionsMissing(fs) == IsNone(fs)

\* Variant: the tool declarations are looked at only after the request object
\* has been validated.
SendRequestPrologue_LateCheck(k, fs, sm, prompt, parameters) ==
    LET sm2 == IF k = "function" THEN SafeSubstitute(DEFAULT_SYSTEM_MESSAGE) ELSE sm
    IN  IF ValidationErrors(parameters) # {}
        THEN [exc |-> "ValidationError", stage |-> "validate", sm |-> sm2, data |-> None]
        ELSE IF k = "function" /\ FunctionsMissing(fs)
        THEN [exc |-> "AttributeError", stage |-> "functions", sm |-> sm2, data |-> None]
        ELSE [exc |-> "", stage |-> "transport", sm |-> sm2,
              data |-> Some(ModelDump(
                  <<AzureAIMessage("system", sm2), AzureAIMessage("user", prompt)>>,
                  IF k = "function"
                  THEN Some([i \in DOMAIN Val(fs) |-> AzureAITool(Val(fs)[i])])
                  ELSE None,
                  parameters))]

\* Variant: the default system message is used for the request only and the
\* instance keeps its own.
SendRequestPrologue_LocalOverride(k, fs, sm, prompt, parameters) ==
    IF k = "function" /\ FunctionsMissing(fs)
    THEN [exc |-> "AttributeError", stage |-> "functions", sm |-> sm, data |-> None]
    ELSE LET sm2 == IF k = "function" THEN SafeSubstitute(DEFAULT_SYSTEM_MESSAGE) ELSE sm
         IN  IF ValidationErrors(parameters) # {}
             THEN [exc |-> "ValidationError", stage |-> "validate", sm |-> sm,
                   data |-> None]
             ELSE [exc |-> "", stage |-> "transport", sm |-> sm,
                   data |-> Some(ModelDump(
                       <<AzureAIMessage("system", sm2), AzureAIMessage("user", prompt)>>,
                       IF k = "function"
                       THEN Some([i \in DOMAIN Val(fs) |-> AzureAITool(Val(fs)[i])])
                       ELSE None,
                       parameters))]

\* Variant: the system message is overwritten before the tool declarations
\* are looked at.
SendRequestPrologue_EarlyOverride(k, fs, sm, prompt, parameters) ==
    LET sm2 == IF k = "function" THEN SafeSubstitute(DEFAULT_SYSTEM_MESSAGE) ELSE sm
    IN  IF k = "function" /\ FunctionsMissing(fs)
        THEN [exc |-> "AttributeError", stage |-> "functions", sm |-> sm2, data |-> None]
        ELSE IF ValidationErrors(parameters) # {}
        THEN [exc |-> "ValidationError", stage |-> "validate", sm |-> sm2, data |-> None]
        ELSE [exc |-> "", stage |-> "transport", sm |-> sm2,
              data |-> Some(ModelDump(
                  <<AzureAIMessage("system", sm2), AzureAIMessage("user", prompt)>>,
                  IF k = "function"
                  THEN Some([i \in DOMAIN Val(fs) |-> AzureAITool(Val(fs)[i])])
                  ELSE None,
                  parameters))]

\* send_request up to the call of _request_url: the exception raised ("" when
\* none), the system message left on the instance, and the serialized request.
SendRequestPrologue(k, fs, sm, prompt, parameters) ==
    IF k = "function" /\ FunctionsMissing(fs)
    THEN [exc |-> "AttributeError", stage |-> "functions", sm |-> sm, data |-> None]
    ELSE LET sm2 == IF k = "function" THEN SafeSubstitute(DEFAULT_SYSTEM_MESSAGE) ELSE sm
             messages == <<AzureAIMessage("system", sm2), AzureAIMessage("user", prompt)>>
             tools == IF k = "function"
                      THEN Some([i \in DOMAIN Val(fs) |-> AzureAITool(Val(fs)[i])])
                      ELSE None
         IN  IF ValidationErrors(parameters) # {}
             THEN [exc |-> "ValidationError", stage |-> "validate", sm |-> sm2,
                   data |-> None]
             ELSE [exc |-> "", stage |-> "transport", sm |-> sm2,
                   data |-> Some(ModelDump(messages, tools, parameters))]

\* The steps send_request has performed when its prologue ends at `stage`: the
\* request object is built and validated unless the tool declarations are
\* missing, and dispatched when the validation passes. The history field
\* `steps` of a call lists the steps it performed.
StepsOfPrologue(stage) ==
    CASE stage = "functions" -> <<>>
      [] stage = "validate" -> <<"build">>
      [] OTHER -> <<"build", "dispatch">>

\* The body of send_request from its first line to the first await of
\* _request_url (the HTTP request is on the wire), or to the exception it
\* raises before that; `base` is the record of the call so far. The history
\* field `alone` of a call tells that no other call was in flight with it.
EnterSendRequest(c, base, prompt, parameters) ==
    LET p == SendRequestPrologue(kind, functions, SystemMessageGet, prompt,
                                 parameters)
        entered == [base EXCEPT !.stage = p.stage,
                                !.w0 = waiting_time,
                                !.r0 = retries,
                                !.s0 = seen2xx,
                                !.f0 = functions,
                                !.steps = @ \o StepsOfPrologue(p.stage),
                                !.alone = \A d \in Slots \ {c} : ~InFlight(d)]
    IN  /\ system_message' = p.sm
        /\ sm_op' = SmOp("call", SystemMessageGet)
        /\ calls' = Settle(c, [d \in Slots |->
              IF d # c
              THEN IF InFlight(d) /\ p.exc = ""
                   THEN [calls[d] EXCEPT !.alone = FALSE] ELSE calls[d]
              ELSE IF p.exc # ""
              THEN [entered EXCEPT !.pc = "raised", !.error = p.exc]
              ELSE [entered EXCEPT !.pc = "request", !.data = p.data,
                                   !.reqs = <<RequestParam("post", Url, p.data)>>]])

\* The caller awaits send_request(prompt, parameters, complete_response=...).
Invoke(c, parameters, complete_response) ==
    /\ calls[c].pc = "idle"
    /\ EnterSendRequest(c,
                        [IdleCall EXCEPT !.parameters = parameters,
                                         !.complete_response = complete_response],
                        Prompt, parameters)
    /\ UNCHANGED <<kind, waiting_time, functions, retries, seen2xx, http>>

\* ---------------------------------------------------------------- __call__
\* retrieve_context() and retrieve_history() of the concrete class
Context == ""
History == ""

\* Template(DEFAULT_PROMPT).safe_substitute(prompt=..., context=..., history=...)
ComposePrompt(prompt, context, history) ==
    [template |-> "DEFAULT_PROMPT", context |-> context, history |-> history,
     prompt |-> prompt]

\* the parameters send_request declares, for either generator
SendRequestParameters(k) == {"prompt", "parameters", "complete_response"}

\* the keyword arguments __call__ passes to send_request next to the prompt,
\* `kwds` being the names of the caller's own keyword arguments
TemplateKeywords(kwds) == {"stream", "complete_response"} \cup kwds

\* Binding the arguments of a call of send_request: the exception Python
\* raises ("" when none) before the body of send_request runs
BindSendRequest(k, keywords) ==
    IF keywords \subseteq SendRequestParameters(k) /\ "parameters" \in keywords
    THEN ""
    ELSE "TypeError"

\* The caller awaits generator(prompt, streaming, complete_response,
\* parameters=parameters): __call__ runs to `await self.retrieve_context()`.
CallTemplate(c, streaming, complete_response, parameters) ==
    /\ calls[c].pc = "idle"
    /\ calls' = Settle(c, [calls EXCEPT ![c] =
                    [IdleCall EXCEPT !.pc = "context", !.via = "__call__",
                                     !.streaming = streaming,
                                     !.complete_response = complete_response,
                                     !.parameters = parameters]])
    /\ UNCHANGED <<kind, waiting_time, system_message, functions, retries,
                   seen2xx, sm_op, http>>

\* retrieve_context() returned: __call__ runs to `await self.retrieve_history()`
ContextRetrieved(c) ==
    /\ calls[c].pc = "context"
    /\ calls' = Settle(c, [calls EXCEPT ![c] =
                    [@ EXCEPT !.pc = "history",
                              !.steps = Append(@, "retrieve_context")]])
    /\ UNCHANGED <<kind, waiting_time, system_message, functions, retries,
                   seen2xx, sm_op, http>>

\* retrieve_history() returned: the prompt is composed and send_request is
\* called with stream=streaming, complete_response=... and the caller's kwds.
HistoryRetrieved(c) ==
    /\ calls[c].pc = "history"
    /\ LET prompt == ComposePrompt(Prompt, Context, History)
           exc == BindSendRequest(kind, TemplateKeywords({"parameters"}))
           composed == [calls[c] EXCEPT
                           !.steps = @ \o <<"retrieve_history", "compose">>]
       IN  IF exc # ""
           THEN /\ calls' = Settle(c, [calls EXCEPT ![c] =
                                [composed EXCEPT !.pc = "raised", !.error = exc,
                                                 !.stage = "bind"]])
                /\ UNCHANGED <<system_message, sm_op, http>>
           ELSE EnterSendRequest(c, composed, prompt, calls[c].parameters)
    /\ UNCHANGED <<kind, waiting_time, functions, retries, seen2xx, http>>

\* ------------------------------------------------------------ _request_url
\* What one attempt met: the exception ("" for none), the status code (0 when
\* there was no response) and the sleep taken before the retry (None for none)
LogEntry(exc, code, sleep) == [exc |-> exc, code |-> code, sleep |-> sleep]

\* response.json() of the response `resp`
ResponseJson(resp) == resp.json

\* The interpretation of the generator class of the instance
Interpret(k, response, complete_response) ==
    IF k = "function" THEN InterpretFunction(response, complete_response)
    ELSE InterpretPlain(response, complete_response)

\* Variant: the counter is incremented after every sleep.
IncrementAfterSleep_Always(exc) == TRUE

\* Whether `self.waiting_time += 1` follows the sleep: the statement stands in
\* the handler of httpx.HTTPStatusError, the handler of httpx.NetworkError
\* has none.
IncrementAfterSleep(exc) == exc = "HTTPStatusError"

\* The request is answered 2xx: the counter is reset, the transport returns
\* response.json() and send_request runs to its end without another await.
RespondSuccess(c, code, body) ==
    /\ calls[c].pc = "request"
    /\ IsSuccess(code)
    /\ waiting_time' = ResetWaitingTime(waiting_time)
    /\ LET resp == [code |-> code, json |-> body]
           returned == ResponseJson(resp)
           r == Interpret(kind, returned, calls[c].complete_response)
           got == [calls[c] EXCEPT !.log = Append(@, LogEntry("", code, None)),
                                   !.steps = Append(@, "interpret"),
                                   !.resp = Some(resp),
                                   !.ret = Some(returned)]
       IN  calls' = Settle(c, [calls EXCEPT ![c] =
                        IF r.ok THEN [got EXCEPT !.pc = "done", !.result = Some(r.v)]
                        ELSE [got EXCEPT !.pc = "raised", !.error = r.exc]])
    /\ retries' = 0
    /\ seen2xx' = TRUE
    /\ UNCHANGED <<kind, system_message, functions, sm_op, http>>

\* The request fails with httpx.NetworkError: sleep 0.5 s
RespondNetworkError(c) ==
    /\ calls[c].pc = "request"
    /\ calls' = Settle(c, [calls EXCEPT ![c] =
                    [@ EXCEPT !.pc = "sleep",
                              !.incr = IncrementAfterSleep("NetworkError"),
                              !.log = Append(@, LogEntry("NetworkError", 0,
                                                       Some(NetworkErrorSleepMs)))]])
    /\ UNCHANGED <<kind, waiting_time, system_message, functions, retries, seen2xx, sm_op, http>>

\* The request is answered with a status raise_for_status raises for
RespondStatusError(c, code) ==
    /\ calls[c].pc = "request"
    /\ ~IsSuccess(code)
    /\ LET sleep == StatusErrorSleep(code, waiting_time)
       IN  calls' = Settle(c, [calls EXCEPT ![c] =
                        IF IsNone(sleep)
                        THEN [@ EXCEPT !.pc = "raised", !.error = "HTTPStatusError",
                                       !.log = Append(@, LogEntry("HTTPStatusError",
                                                                  code, None))]
                        ELSE [@ EXCEPT !.pc = "sleep",
                                       !.incr = IncrementAfterSleep("HTTPStatusError"),
                                       !.log = Append(@, LogEntry("HTTPStatusError",
                                                                  code, sleep))]])
    /\ UNCHANGED <<kind, waiting_time, system_message, functions, retries, seen2xx, sm_op, http>>

\* Variant: the recursive call drops the payload.
RetryRequest_NoData(req, data) == RequestParam(req.method, req.url, None)

\* The arguments of the recursive call `self._request_url(url, method, data)`
RetryRequest(req, data) == RequestParam(req.method, req.url, data)

\* Variant: the retry is sent twice.
IssueRetry_Twice(reqs, data) ==
    Append(Append(reqs, RetryRequest(reqs[Len(reqs)], data)),
           RetryRequest(reqs[Len(reqs)], data))

\* The requests of a call after `return await self._request_url(url, method,
\* data)`: one more request, made from the arguments of the last one
IssueRetry(reqs, data) == Append(reqs, RetryRequest(reqs[Len(reqs)], data))

\* The sleep ends: the counter is incremented after a 503 or 429, and the
\* recursive call of _request_url puts the next request on the wire. Every
\* retry nests one more _request_url frame in the chain of awaits; when the
\* interpreter's recursion limit is reached the recursive call raises
\* RecursionError, which no handler of _request_url catches. `ceiling` bounds
\* the requests of the call.
Resume(c, ceiling) ==
    /\ calls[c].pc = "sleep"
    /\ Len(calls[c].reqs) < ceiling
    /\ calls[c].incr => waiting_time < MaxWait
    /\ waiting_time' = IF calls[c].incr THEN IncrementWaitingTime(waiting_time)
                       ELSE waiting_time
    /\ retries' = IF calls[c].incr THEN retries + 1 ELSE retries
    /\ calls' = Settle(c, [calls EXCEPT ![c] =
                    IF Len(calls[c].reqs) >= RecursionLimit
                    THEN [@ EXCEPT !.pc = "raised", !.incr = FALSE,
                                   !.error = "RecursionError"]
                    ELSE [@ EXCEPT !.pc = "request", !.incr = FALSE,
                                   !.reqs = IssueRetry(@, calls[c].data)]])
    /\ UNCHANGED <<kind, system_message, functions, seen2xx, sm_op, http>>

\* The sleep of a call that has made fewer than MaxAttempts requests ends.
Wake(c) == Resume(c, MaxAttempts)

\* ------------------------------------------------------------- _stream_url
\* The chunks of a streamed 2xx body (response.aiter_text()), and the payload
\* a consumer streams with.
MaxChunks == 2
ChunkText(k) == [t |-> "chunk", v |-> k]
\* the object `self._stream_url(url, method, data)` evaluates to: an async
\* generator that has not been started
GeneratorObject == [t |-> "generator", v |-> 0]
StreamData ==
    SendRequestPrologue("plain", None, DEFAULT_SYSTEM_MESSAGE, Prompt,
                        NoParameters).data

\* A consumer starts iterating _stream_url(url, "post", data): the generator
\* runs to `async with self.http_client.stream(...)`, the request is on the
\* wire.
StreamStart(c) ==
    /\ calls[c].pc = "idle"
    /\ calls' = Settle(c, [calls EXCEPT ![c] =
                    [IdleCall EXCEPT !.pc = "request", !.via = "_stream_url",
                                     !.data = StreamData,
                                     !.reqs = <<RequestParam("post", Url, StreamData)>>,
                                     !.w0 = waiting_time,
                                     !.r0 = retries,
                                     !.s0 = seen2xx]])
    /\ UNCHANGED <<kind, waiting_time, system_message, functions, retries,
                   seen2xx, sm_op, http>>

\* The response arrives: `self.waiting_time = 0` runs before
\* raise_for_status(). A 2xx response is streamed; 503 and 429 sleep, the 429
\* for the counter just reset; any other status is raised to the consumer.
StreamResponse(c, code) ==
    /\ calls[c].via = "_stream_url"
    /\ calls[c].pc = "request"
    /\ waiting_time' = ResetWaitingTime(waiting_time)
    /\ LET sleep == StatusErrorSleep(code, waiting_time')
       IN  calls' = Settle(c, [calls EXCEPT ![c] =
                IF IsSuccess(code)
                THEN [@ EXCEPT !.pc = "chunks",
                               !.log = Append(@, LogEntry("", code, None))]
                ELSE IF IsNone(sleep)
                THEN [@ EXCEPT !.pc = "raised", !.error = "HTTPStatusError",
                               !.log = Append(@, LogEntry("HTTPStatusError",
                                                          code, None))]
                ELSE [@ EXCEPT !.pc = "sleep",
                               !.incr = IncrementAfterSleep("HTTPStatusError"),
                               !.log = Append(@, LogEntry("HTTPStatusError",
                                                          code, sleep))]])
    /\ retries' = IF IsSuccess(code) THEN 0 ELSE retries
    /\ seen2xx' = (seen2xx \/ IsSuccess(code))
    /\ UNCHANGED <<kind, system_message, functions, sm_op, http>>

\* httpx.NetworkError while the request is sent or while the body is read
StreamNetworkError(c) ==
    /\ calls[c].via = "_stream_url"
    /\ calls[c].pc \in {"request", "chunks"}
    /\ calls' = Settle(c, [calls EXCEPT ![c] =
                    [@ EXCEPT !.pc = "sleep",
                              !.incr = IncrementAfterSleep("NetworkError"),
                              !.log = Append(@, LogEntry("NetworkError", 0,
                                                       Some(NetworkErrorSleepMs)))]])
    /\ UNCHANGED <<kind, waiting_time, system_message, functions, retries,
                   seen2xx, sm_op, http>>

\* `yield chunk`: the next chunk of the body is delivered to the consumer
StreamChunk(c) ==
    /\ calls[c].pc = "chunks"
    /\ Len(calls[c].items) < MaxChunks
    /\ calls' = Settle(c, [calls EXCEPT ![c] =
                    [@ EXCEPT !.items = Append(@, ChunkText(Len(@) + 1))]])
    /\ UNCHANGED <<kind, waiting_time, system_message, functions, retries,
                   seen2xx, sm_op, http>>

\* the stream closes: the generator ends
StreamClose(c) ==
    /\ calls[c].pc = "chunks"
    /\ calls' = Settle(c, [calls EXCEPT ![c] = [@ EXCEPT !.pc = "done"]])
    /\ UNCHANGED <<kind, waiting_time, system_message, functions, retries,
                   seen2xx, sm_op, http>>

\* The sleep ends: the counter is incremented after a 503 or 429, and
\* `yield self._stream_url(url, method, data)` delivers a new generator
\* object, not its chunks, to the consumer.
StreamWake(c) ==
    /\ calls[c].via = "_stream_url"
    /\ calls[c].pc = "sleep"
    /\ calls[c].incr => (waiting_time < MaxWait /\ retries < MaxWait)
    /\ waiting_time' = IF calls[c].incr THEN IncrementWaitingTime(waiting_time)
                       ELSE waiting_time
    /\ retries' = IF calls[c].incr THEN retries + 1 ELSE retries
    /\ calls' = Settle(c, [calls EXCEPT ![c] =
                    [@ EXCEPT !.pc = "yielded", !.incr = FALSE,
                              !.items = Append(@, GeneratorObject)]])
    /\ UNCHANGED <<kind, system_message, functions, seen2xx, sm_op, http>>

\* The consumer asks for the next item: the generator runs off its end.
StreamFinish(c) ==
    /\ calls[c].pc = "yielded"
    /\ calls' = Settle(c, [calls EXCEPT ![c] = [@ EXCEPT !.pc = "done"]])
    /\ UNCHANGED <<kind, waiting_time, system_message, functions, retries,
                   seen2xx, sm_op, http>>

\* The consumer iterates the generator object it was handed: the request is
\* sent again.
IterateYielded(c) ==
    /\ calls[c].pc = "yielded"
    /\ Len(calls[c].reqs) < MaxAttempts
    /\ calls' = Settle(c, [calls EXCEPT ![c] =
                    [@ EXCEPT !.pc = "request",
                              !.reqs = IssueRetry(@, calls[c].data)]])
    /\ UNCHANGED <<kind, waiting_time, system_message, functions, retries,
                   seen2xx, sm_op, http>>

\* The caller takes the result or the exception of a finished call.
Collect(c) ==
    /\ calls[c].pc \in {"done", "raised"}
    /\ calls' = Settle(c, [calls EXCEPT ![c] = IdleCall])
    /\ UNCHANGED <<kind, waiting_time, system_message, functions, retries, seen2xx, sm_op, http>>

\* One caller awaiting each call before it makes the next
Caller == "a"

Next ==
    \/ \E m \in SystemMessages : SetSystemMessage(m)
    \/ DelSystemMessage
    \/ \E l \in FunctionLists : SetFunctions(l)
    \/ DelFunctions
    \/ \E p \in ParamMaps, cr \in BOOLEAN : Invoke(Caller, p, cr)
    \/ \E p \in ParamMaps, st \in BOOLEAN, cr \in BOOLEAN :
            CallTemplate(Caller, st, cr, p)
    \/ ContextRetrieved(Caller)
    \/ HistoryRetrieved(Caller)
    \/ \E code \in Statuses, b \in Bodies : RespondSuccess(Caller, code, b)
    \/ RespondNetworkError(Caller)
    \/ \E code \in Statuses : RespondStatusError(Caller, code)
    \/ Wake(Caller)
    \/ Collect(Caller)

Spec == Init /\ [][Next]_vars

\* A caller that supplies any of the wider parameter maps and whose request,
\* once sent, is answered 200 at once.
BuildBody == Choice(JObj("content" :> JStr("42")))
NextBuild ==
    \/ \E m \in SystemMessages : SetSystemMessage(m)
    \/ DelSystemMessage
    \/ \E l \in FunctionLists : SetFunctions(l)
    \/ DelFunctions
    \/ \E p \in WideParamMaps, cr \in BOOLEAN : Invoke(Caller, p, cr)
    \/ RespondSuccess(Caller, 200, BuildBody)
    \/ Collect(Caller)

SpecBuild == Init /\ [][NextBuild]_vars

\* Two callers that share one instance of the plain generator, make one call
\* each and do not await each other: asyncio runs the calls interleaved at
\* their awaits.
ThrottleStatuses == {429, 503}
InitShared == Init /\ kind = "plain"
NextShared ==
    \E c \in Slots :
        \/ Invoke(c, NoParameters, TRUE)
        \/ RespondSuccess(c, 200, BuildBody)
        \/ \E code \in ThrottleStatuses : RespondStatusError(c, code)
        \/ Wake(c)

SpecShared == InitShared /\ [][NextShared]_vars

\* Two callers that share one instance of the plain generator and make one
\* call each, not awaiting each other; a request is answered 200, 429 or with
\* the fatal status 400.
RaceStatuses == {429, 400}
NextRace ==
    \E c \in Slots :
        \/ Invoke(c, NoParameters, TRUE)
        \/ RespondSuccess(c, 200, BuildBody)
        \/ \E code \in RaceStatuses : RespondStatusError(c, code)
        \/ Wake(c)

SpecRace == InitShared /\ [][NextRace]_vars

\* A caller whose every request meets a transport failure, a 503 or a 429,
\* for as long as the call goes on.
NextOutage ==
    \/ \E cr \in BOOLEAN : Invoke(Caller, NoParameters, cr)
    \/ RespondNetworkError(Caller)
    \/ \E code \in ThrottleStatuses : RespondStatusError(Caller, code)
    \/ Resume(Caller, RecursionLimit + 1)

SpecOutage == InitShared /\ [][NextOutage]_vars

\* close(): `await self.http_client.aclose()`, called when no call is in
\* flight.
Close ==
    /\ Quiet
    /\ http' = [http EXCEPT !.clients[http.http_client] = "closed",
                            !.closed = TRUE]
    /\ UNCHANGED <<kind, waiting_time, system_message, functions, calls,
                   retries, seen2xx, sm_op>>

\* send_request on an instance that has not been closed
InvokeOpen(c, cr) ==
    /\ ~http.closed
    /\ Invoke(c, NoParameters, cr)

\* The life of an instance of either package: constructed, used by one
\* caller for plain calls, closed, and not used after close().
InitLife ==
    /\ kind = "plain"
    /\ waiting_time = InitialWaitingTime
    /\ system_message = DEFAULT_SYSTEM_MESSAGE
    /\ functions = None
    /\ calls = [c \in Slots |-> IdleCall]
    /\ retries = 0
    /\ seen2xx = FALSE
    /\ sm_op = SmOp("new", "")
    /\ http \in {Construct(package) : package \in Packages}
NextLife ==
    \/ \E cr \in BOOLEAN : InvokeOpen(Caller, cr)
    \/ \E code \in Statuses, b \in Bodies : RespondSuccess(Caller, code, b)
    \/ RespondNetworkError(Caller)
    \/ \E code \in Statuses : RespondStatusError(Caller, code)
    \/ Wake(Caller)
    \/ Collect(Caller)
    \/ Close

SpecLife == InitLife /\ [][NextLife]_vars

\* A consumer of the streaming transport, one stream at a time.
NextStream ==
    \/ StreamStart(Caller)
    \/ \E code \in Statuses : StreamResponse(Caller, code)
    \/ StreamNetworkError(Caller)
    \/ StreamChunk(Caller)
    \/ StreamClose(Caller)
    \/ StreamWake(Caller)
    \/ StreamFinish(Caller)
    \/ IterateYielded(Caller)
    \/ Collect(Caller)

SpecStream == InitShared /\ [][NextStream]_vars

\* ================================================================== claims
\* the body of send_request was entered
Started(c) == ~(calls[c].stage \in {"", "bind"})
\* the transport returned to send_request (a 2xx response was received)
Returned(c) == ~IsNone(calls[c].ret)
Retryable(e) == e.exc = "NetworkError" \/ e.code \in {503, 429}
Fatal(e) == e.exc = "HTTPStatusError" /\ ~(e.code \in {503, 429})
\* the log of c is k >= 1 responses 429 followed by one 2xx
ThrottledThenSuccess(c) ==
    LET log == calls[c].log
    IN  /\ Returned(c)
        /\ Len(log) >= 2
        /\ \A i \in 1..(Len(log) - 1) : log[i].code = 429

\* C1: a non-2xx status other than 503 and 429 is raised to the caller at
\* once: it is the last entry of the call's log, no sleep follows it, the call
\* ends with HTTPStatusError and no request is sent after that attempt.
C1_FatalStatusRaisedAtOnce ==
    \A c \in Slots : \A i \in 1..Len(calls[c].log) :
        Fatal(calls[c].log[i]) =>
            /\ i = Len(calls[c].log)
            /\ IsNone(calls[c].log[i].sleep)
            /\ calls[c].pc = "raised"
            /\ calls[c].error = "HTTPStatusError"
            /\ Len(calls[c].reqs) = i

C1_Witness ==
    \E c \in Slots :
        /\ Len(calls[c].log) >= 2
        /\ Fatal(calls[c].log[Len(calls[c].log)])
        /\ calls[c].log[Len(calls[c].log)].code \in {400, 500}

\* C2 (as stated): in a call answered k >= 1 times 429 and then 2xx, on a new
\* or on a used instance, the i-th sleep is i^1.5 s and the counter is 0 after
\* the success.
C2_SleepsCountFromOne ==
    \A c \in Slots :
        ThrottledThenSuccess(c) =>
            /\ \A i \in 1..(Len(calls[c].log) - 1) :
                   calls[c].log[i].sleep = Some(Pow15Ms(i))
            /\ waiting_time = 0

\* C2 (amended): in such a call the i-th sleep is (w0 + i - 1)^1.5 s, w0 being
\* the value of the counter when the call starts: 1 when the instance has seen
\* neither a 2xx response nor a 503/429 retry, 0 when its last response was a
\* 2xx; the counter is 0 after the success.
C2_SleepsCountFromStart ==
    \A c \in Slots :
        ThrottledThenSuccess(c) =>
            /\ \A i \in 1..(Len(calls[c].log) - 1) :
                   calls[c].log[i].sleep = Some(Pow15Ms(calls[c].w0 + i - 1))
            /\ (~calls[c].s0 /\ calls[c].r0 = 0) => calls[c].w0 = 1
            /\ (calls[c].s0 /\ calls[c].r0 = 0) => calls[c].w0 = 0
            /\ waiting_time = 0

C2_Witness ==
    \E c \in Slots :
        /\ ThrottledThenSuccess(c)
        /\ Len(calls[c].log) = 4
        /\ calls[c].w0 = 1
        /\ calls[c].log[3].sleep = Some(5196)

C2_WitnessUsed ==
    \E c \in Slots :
        /\ ThrottledThenSuccess(c)
        /\ calls[c].s0
        /\ calls[c].w0 = 0
        /\ Len(calls[c].log) = 3

\* C3: a 503 followed by a 2xx: the sleep between the two attempts is 60 s,
\* the transport returns the JSON body of the 2xx response, and the counter is
\* 0 when the call returns.
C3_UnavailableThenSuccess ==
    \A c \in Slots : \A i \in 1..(Len(calls[c].log) - 1) :
        (calls[c].log[i].code = 503 /\ IsSuccess(calls[c].log[i + 1].code)) =>
            /\ calls[c].log[i].sleep = Some(60000)
            /\ Returned(c)
            /\ calls[c].ret = Some(Val(calls[c].resp).json)
            /\ Val(calls[c].resp).code = calls[c].log[i + 1].code
            /\ waiting_time = 0

C3_Witness ==
    \E c \in Slots :
        /\ Len(calls[c].log) = 2
        /\ calls[c].log[1].code = 503
        /\ calls[c].pc = "done"
        /\ calls[c].w0 = 1

\* C4 (as stated): the counter equals the number of 503/429 retries since the
\* most recent 2xx response, after any sequence of outcomes on the instance.
C4_CounterIsRetriesSince2xx ==
    (\E c \in Slots : Len(calls[c].log) > 0) => waiting_time = retries

\* C4 (amended): the counter rises by 1 with every retried 503/429 and is set
\* to 0 by every 2xx; it equals the number of 503/429 retries since the most
\* recent 2xx response once there has been one, and 1 plus the number of
\* 503/429 retries since construction before the first 2xx response.
C4_CounterIsRetriesPlusInitial ==
    /\ seen2xx => waiting_time = retries
    /\ ~seen2xx => waiting_time = 1 + retries
    /\ \A c \in Slots :
          (Returned(c) /\ calls[c].pc # "idle") => waiting_time = 0
    /\ \A c \in Slots :
          InFlight(c) =>
              waiting_time = calls[c].w0
                  + Cardinality({i \in 1..(Len(calls[c].reqs) - 1) :
                                    calls[c].log[i].code \in {503, 429}})

C4_Witness ==
    /\ seen2xx
    /\ retries = 2
    /\ \E c \in Slots : calls[c].pc = "request" /\ calls[c].log[1].code = 503

\* the specification's reading of choices[0].message.content: the string in
\* that place, "" when any step of the path is absent or the content is null
ContentOrEmpty(body) ==
    IF /\ "choices" \in DOMAIN body.v
       /\ body.v["choices"].t = "list"
       /\ Len(body.v["choices"].v) > 0
       /\ body.v["choices"].v[1].t = "obj"
       /\ "message" \in DOMAIN body.v["choices"].v[1].v
       /\ body.v["choices"].v[1].v["message"].t = "obj"
       /\ "content" \in DOMAIN body.v["choices"].v[1].v["message"].v
       /\ body.v["choices"].v[1].v["message"].v["content"].t = "str"
    THEN body.v["choices"].v[1].v["message"].v["content"]
    ELSE JStr("")

StopTooLong(p) == ~IsNone(p.stop) /\ Len(Val(p.stop)) > 4
NOutOfRange(p) == ~IsNone(p.n) /\ ~(Val(p.n) >= 1 /\ Val(p.n) <= 128)

C6_ValidParametersAccepted ==
    \A c \in Slots :
        (Started(c) /\ ~StopTooLong(calls[c].parameters)
                    /\ ~NOutOfRange(calls[c].parameters)) =>
            calls[c].error # "ValidationError"

\* C7: with more than 4 stop entries or n outside 1..128 the invocation of
\* either generator fails before the transport is entered: with the pydantic
\* ValidationError (with the missing-declarations error when the function
\* calling generator has no declarations), no request is sent, nothing is
\* retried.
C7_InvalidParametersFailFast ==
    \A c \in Slots :
        (Started(c) /\ (StopTooLong(calls[c].parameters)
                        \/ NOutOfRange(calls[c].parameters))) =>
            /\ calls[c].pc = "raised"
            /\ calls[c].error =
                 IF kind = "function" /\ IsNone(functions)
                 THEN "AttributeError" ELSE "ValidationError"
            /\ calls[c].reqs = <<>>
            /\ calls[c].log = <<>>
            /\ IsNone(calls[c].data)

C7_Witness ==
    \E c \in Slots :
        /\ calls[c].pc = "raised"
        /\ calls[c].error = "ValidationError"
        /\ kind = "function"
        /\ StopTooLong(calls[c].parameters)
        /\ ~NOutOfRange(calls[c].parameters)

C7_WitnessN ==
    \E c \in Slots :
        /\ calls[c].pc = "raised"
        /\ calls[c].error = "ValidationError"
        /\ kind = "plain"
        /\ calls[c].parameters.n = Some(129)

\* C8: the function calling generator invoked while no tool declarations are
\* set raises AttributeError at its first statement: no request object is
\* built, no request is sent and nothing is retried.
C8_MissingFunctionsRaise ==
    \A c \in Slots :
        (Started(c) /\ kind = "function" /\ IsNone(functions)) =>
            /\ calls[c].pc = "raised"
            /\ calls[c].error = "AttributeError"
            /\ calls[c].stage = "functions"
            /\ IsNone(calls[c].data)
            /\ calls[c].reqs = <<>>
            /\ calls[c].log = <<>>

C8_Witness ==
    \E c \in Slots :
        /\ kind = "function"
        /\ IsNone(functions)
        /\ calls[c].pc = "raised"
        /\ calls[c].error = "AttributeError"
        /\ NOutOfRange(calls[c].parameters)

\* C9: the function calling generator invoked with the tool declarations set
\* to an empty sequence raises the same configuration error and sends nothing.
C9_EmptyFunctionsRaise ==
    \A c \in Slots :
        (Started(c) /\ kind = "function" /\ functions = Some(<<>>)) =>
            /\ calls[c].pc = "raised"
            /\ calls[c].error = "AttributeError"
            /\ calls[c].reqs = <<>>

\* C10: the plain generator with complete_response = FALSE returns, for every
\* 2xx response, the string at choices[0].message.content, and "" without
\* raising when that field is absent or null.
C10_PlainReturnsString ==
    \A c \in Slots :
        (kind = "plain" /\ Returned(c) /\ ~calls[c].complete_response) =>
            /\ calls[c].pc = "done"
            /\ calls[c].result = Some(ContentOrEmpty(Val(calls[c].ret)))

\* C11: the plain generator with complete_response = TRUE returns, for every
\* 2xx response, the response object the transport returned, unmodified.
C11_PlainCompleteReturnsResponse ==
    \A c \in Slots :
        (kind = "plain" /\ Returned(c) /\ calls[c].complete_response) =>
            /\ calls[c].pc = "done"
            /\ calls[c].result = calls[c].ret

\* Reading a response body as the specification describes it.
HasKey(o, k) == o.t = "obj" /\ k \in DOMAIN o.v
\* the tool_calls list of the first choice's message, empty when absent
ToolCallList(body) ==
    IF /\ HasKey(body, "choices")
       /\ body.v["choices"].t = "list"
       /\ Len(body.v["choices"].v) > 0
       /\ HasKey(body.v["choices"].v[1], "message")
       /\ HasKey(body.v["choices"].v[1].v["message"], "tool_calls")
       /\ body.v["choices"].v[1].v["message"].v["tool_calls"].t = "list"
    THEN body.v["choices"].v[1].v["message"].v["tool_calls"].v
    ELSE <<>>
\* the arguments field of the first tool call, None when there is none
FirstArguments(body) ==
    LET tcs == ToolCallList(body)
    IN  IF /\ Len(tcs) > 0
           /\ HasKey(tcs[1], "function")
           /\ HasKey(tcs[1].v["function"], "arguments")
        THEN Some(tcs[1].v["function"].v["arguments"])
        ELSE None
ArgsObject == JObj(("a" :> JNum(1)) @@ ("b" :> JNum(2)))

\* C12: the function-calling generator with complete_response = FALSE returns,
\* for every 2xx response whose choices[0].message.tool_calls[0]
\* .function.arguments is a JSON-encoded object, the decoded object; later
\* tool calls and later choices are not used.
C12_FunctionReturnsDecodedArguments ==
    \A c \in Slots :
        (/\ kind = "function"
         /\ Returned(c)
         /\ ~calls[c].complete_response
         /\ FirstArguments(Val(calls[c].ret)) = Some(JStr(ArgsText))) =>
            /\ calls[c].pc = "done"
            /\ calls[c].result = Some(ArgsObject)

\* the response has no tool call, or its first tool call has no arguments
\* field, or the arguments are not valid JSON
NothingToDecode(body) ==
    \/ ToolCallList(body) = <<>>
    \/ IsNone(FirstArguments(body))
    \/ /\ Val(FirstArguments(body)).t = "str"
       /\ ~(Val(FirstArguments(body)).v \in {ArgsText, ListText})
DecodeError == "JSONDecodeError"

\* C13: the function-calling generator with complete_response = FALSE ends
\* with the decode error, the same class in each case, and returns no value
\* whenever the 2xx response has no tool call, no arguments field, or
\* arguments that are not valid JSON.
C13_NothingToDecodeRaisesDecodeError ==
    \A c \in Slots :
        (/\ kind = "function"
         /\ Returned(c)
         /\ ~calls[c].complete_response
         /\ NothingToDecode(Val(calls[c].ret))) =>
            /\ calls[c].pc = "raised"
            /\ IsNone(calls[c].result)
            /\ calls[c].error = DecodeError

\* C14: the function-calling generator with complete_response = TRUE returns,
\* for every 2xx response, tool call or not, the response object unmodified
\* and raises nothing.
C14_FunctionCompleteReturnsResponse ==
    \A c \in Slots :
        (kind = "function" /\ Returned(c) /\ calls[c].complete_response) =>
            /\ calls[c].pc = "done"
            /\ calls[c].error = ""
            /\ calls[c].result = calls[c].ret

\* what send_request would return or raise without its logging statement
WithoutLogging(k, response, complete_response) ==
    IF complete_response THEN Ok(response)
    ELSE IF k = "plain" THEN PlainContent(response)
    ELSE Then(ToolCalls(response), DecodeArguments)

\* C19: for every 2xx body, whatever its model and usage fields are, the
\* call returns the value, or raises the error, it would return or raise if
\* the logging statement were not there.
C19_LoggingChangesNothing ==
    \A c \in Slots :
        Returned(c) =>
            LET r == WithoutLogging(kind, Val(calls[c].ret),
                                    calls[c].complete_response)
            IN  IF r.ok
                THEN calls[c].pc = "done" /\ calls[c].result = Some(r.v)
                ELSE calls[c].pc = "raised" /\ calls[c].error = r.exc

\* C15: every request either generator sends carries exactly two messages:
\* the system message of the instance as one text block, then the prompt as
\* one text block.
C15_SystemThenUser ==
    \A c \in Slots :
        InFlight(c) =>
            \A i \in 1..Len(calls[c].reqs) :
                Val(calls[c].reqs[i].json)["messages"] =
                    << [role |-> "system",
                        content |-> <<[type |-> "text", text |-> system_message]>>],
                       [role |-> "user",
                        content |-> <<[type |-> "text", text |-> Prompt]>>] >>

\* a retried request of the function-calling generator
C15_Witness ==
    \E c \in Slots :
        /\ kind = "function"
        /\ InFlight(c)
        /\ Len(calls[c].reqs) = 2
        /\ Len(Val(calls[c].reqs[2].json)["messages"]) = 2
        /\ Val(calls[c].reqs[2].json)["messages"][1].role = "system"

\* the parameter keys the caller supplied with a value other than None
SuppliedNonNull(p) ==
    {f \in {"n", "stop", "max_tokens"} : ~IsNone(p[f])}
    \cup {f \in {"temperature"} : ~IsNone(p[f]) /\ ~IsNone(Val(p[f]))}

\* C16: the serialized request holds exactly messages, tools for the
\* function-calling generator, and the parameters the caller supplied with a
\* value other than None, each with the supplied value; a field that was not
\* supplied (max_tokens, stream, response_format and the others) is not
\* emitted.
C16_OnlySuppliedFields ==
    \A c \in Slots :
        ~IsNone(calls[c].data) =>
            LET d == Val(calls[c].data)
                p == calls[c].parameters
            IN  /\ DOMAIN d = {"messages"}
                              \cup (IF kind = "function" THEN {"tools"} ELSE {})
                              \cup SuppliedNonNull(p)
                /\ \A f \in SuppliedNonNull(p) \ {"temperature"} : d[f] = Val(p[f])
                /\ "temperature" \in SuppliedNonNull(p) =>
                       d["temperature"] = Val(Val(p.temperature))
                /\ \A i \in 1..Len(calls[c].reqs) : calls[c].reqs[i].json = Some(d)

\* temperature supplied as None, max_tokens not supplied, n supplied
C16_Witness ==
    \E c \in Slots :
        /\ kind = "function"
        /\ calls[c].pc = "request"
        /\ calls[c].parameters.temperature = Some(None)
        /\ IsNone(calls[c].parameters.max_tokens)
        /\ calls[c].parameters.n = Some(1)
        /\ DOMAIN Val(calls[c].reqs[1].json) = {"messages", "tools", "n"}

\* max_tokens supplied: it is emitted with the supplied value
C16_WitnessSupplied ==
    \E c \in Slots :
        /\ kind = "plain"
        /\ calls[c].pc = "request"
        /\ DOMAIN Val(calls[c].reqs[1].json) = {"messages", "temperature", "max_tokens"}
        /\ Val(calls[c].reqs[1].json)["max_tokens"] = SuppliedTokens
        /\ Val(calls[c].reqs[1].json)["temperature"] = 0

\* C18: system_message reads as the module default on a new instance, as m
\* after it was set to m and as the default after it was deleted; a request
\* of the plain generator carries as its system text the value the property
\* had when send_request was invoked (the property is not assigned while the
\* call is in flight, so that is the value it still reads as).
C18_SystemMessageProperty ==
    /\ sm_op.op = "new" => SystemMessageGet = DEFAULT_SYSTEM_MESSAGE
    /\ sm_op.op = "set" => SystemMessageGet = sm_op.arg
    /\ sm_op.op = "del" => SystemMessageGet = DEFAULT_SYSTEM_MESSAGE
    /\ \A c \in Slots :
        (kind = "plain" /\ InFlight(c)) =>
            /\ sm_op.op = "call"
            /\ \A i \in 1..Len(calls[c].reqs) :
                Val(calls[c].reqs[i].json)["messages"][1].content[1].text
                    = SystemMessageGet

\* the message was set to "S", a call was made and collected, and the message
\* was deleted
C18_Witness ==
    /\ sm_op.op = "del"
    /\ seen2xx
    /\ SystemMessageGet = DEFAULT_SYSTEM_MESSAGE

\* a request of the plain generator carries the message set before the call
C18_WitnessRequest ==
    \E c \in Slots :
        /\ kind = "plain"
        /\ calls[c].pc = "request"
        /\ SystemMessageGet = "S"
        /\ Val(calls[c].reqs[1].json)["messages"][1].content[1].text = "S"

\* C17: a call through the template method with valid parameters, whatever
\* the stream flag and complete_response are, does not end before the network
\* call: once retrieve_context and retrieve_history have returned, a request
\* is on the wire.
C17_TemplateReachesTransport ==
    \A c \in Slots :
        (/\ calls[c].via = "__call__"
         /\ ~(calls[c].pc \in {"idle", "context", "history"})
         /\ ~StopTooLong(calls[c].parameters)
         /\ ~NOutOfRange(calls[c].parameters)
         /\ (kind = "function" => ~IsNone(functions))) =>
            Len(calls[c].reqs) >= 1

\* the counter the i-th response of call c would have met had c been the
\* only call on the instance: the counter at its start plus its own retries
\* after a 503 or 429
AloneCounter(c, i) ==
    calls[c].w0
    + Cardinality({j \in 1..(i - 1) : calls[c].log[j].code \in {503, 429}})
DelayDiffers(c, i) ==
    /\ calls[c].log[i].code = 429
    /\ calls[c].log[i].sleep # Some(Pow15Ms(AloneCounter(c, i)))

\* C20: the calls on one instance share the backoff counter. A call that had
\* the instance to itself sleeps after each 429 as its own retries dictate;
\* with another call in flight there are interleavings (the witnesses) in
\* which its 429 delay is another one, the other call having incremented or
\* reset the counter.
C20_OnlyOtherCallsChangeDelay ==
    \A c \in Slots :
        calls[c].alone =>
            \A i \in 1..Len(calls[c].log) : ~DelayDiffers(c, i)

\* the first 429 of a call is slept longer than the counter at its start
\* dictates: another call's retry incremented the counter meanwhile
C20_Witness ==
    \E c \in Slots :
        /\ ~calls[c].alone
        /\ Len(calls[c].log) = 1
        /\ DelayDiffers(c, 1)
        /\ calls[c].log[1].sleep = Some(Pow15Ms(calls[c].w0 + 1))

\* the second 429 of a call is slept for 0 ms: another call's success reset
\* the counter meanwhile
C20_WitnessReset ==
    \E c \in Slots :
        /\ ~calls[c].alone
        /\ Len(calls[c].log) = 2
        /\ calls[c].log[1].code = 429
        /\ DelayDiffers(c, 2)
        /\ calls[c].log[2].sleep = Some(0)

\* C22: no request is duplicated or lost. Every response but the last of a
\* call was a retryable failure and was followed by exactly one more request,
\* so no request follows a 2xx or a fatal response; a call whose transport
\* returned made 1 + (its retryable failures) requests and was handed the
\* body of the last, 2xx, response and no other.
C22_OneRequestPerAttempt ==
    \A c \in Slots :
        LET log == calls[c].log
            reqs == calls[c].reqs
        IN  /\ \A i \in 1..(Len(log) - 1) : Retryable(log[i])
            /\ Len(reqs) = Len(log) + (IF calls[c].pc = "request" THEN 1 ELSE 0)
            /\ Returned(c) =>
                /\ Len(reqs) = 1 + Cardinality({i \in 1..Len(log) : Retryable(log[i])})
                /\ IsSuccess(log[Len(log)].code)
                /\ Val(calls[c].resp).code = log[Len(log)].code
                /\ calls[c].ret = Some(Val(calls[c].resp).json)
            /\ ~Returned(c) => IsNone(calls[c].resp)

\* a call that returned after a transport failure and a 429
C22_Witness ==
    \E c \in Slots :
        /\ Returned(c)
        /\ Len(calls[c].reqs) = 3
        /\ calls[c].log[1].exc = "NetworkError"
        /\ calls[c].log[2].code = 429

\* the body of send_request ran past the check of the tool declarations
PastFunctionsCheck(c) == calls[c].stage \in {"validate", "transport"}
SystemText(req) == Val(req.json)["messages"][1].content[1].text

\* C27: in the function-calling generator every request carries the module
\* default as its system message, whatever the caller had set, and from the
\* invocation on the instance's system_message reads as that default.
C27_FunctionOverwritesSystemMessage ==
    \A c \in Slots :
        (kind = "function" /\ PastFunctionsCheck(c)) =>
            /\ sm_op.op = "call"
            /\ SystemMessageGet = SafeSubstitute(DEFAULT_SYSTEM_MESSAGE)
            /\ \A i \in 1..Len(calls[c].reqs) :
                   SystemText(calls[c].reqs[i]) = SafeSubstitute(DEFAULT_SYSTEM_MESSAGE)

\* the caller had set "S": the request carries the default
C27_Witness ==
    \E c \in Slots :
        /\ kind = "function"
        /\ calls[c].pc = "request"
        /\ sm_op = SmOp("call", "S")
        /\ SystemText(calls[c].reqs[1]) = DEFAULT_SYSTEM_MESSAGE
        /\ SystemMessageGet = DEFAULT_SYSTEM_MESSAGE

\* the call was answered and collected, and "S" is still lost
C27_WitnessAfter ==
    /\ kind = "function"
    /\ Quiet
    /\ seen2xx
    /\ sm_op = SmOp("call", "S")
    /\ SystemMessageGet = DEFAULT_SYSTEM_MESSAGE

\* the call ended before any request was sent
FailedBeforeNetwork(c) ==
    /\ calls[c].pc = "raised"
    /\ calls[c].stage \in {"functions", "validate"}

\* C29: an invocation that fails before any network call, with a validation
\* error or for missing tool declarations, leaves system_message, waiting_time
\* and the tool declarations as they were before it, for either generator.
C29_FailedInvocationChangesNothing ==
    \A c \in Slots :
        FailedBeforeNetwork(c) =>
            /\ sm_op.op = "call"
            /\ SystemMessageGet = sm_op.arg
            /\ waiting_time = calls[c].w0
            /\ functions = calls[c].f0

\* C29 as amended: such an invocation leaves waiting_time and the tool
\* declarations as they were; it leaves system_message as it was in the plain
\* generator and when the tool declarations are missing, but the
\* function-calling generator failing with a validation error has already
\* overwritten system_message with the module default.
C29_FailedInvocationFrame ==
    \A c \in Slots :
        FailedBeforeNetwork(c) =>
            /\ sm_op.op = "call"
            /\ waiting_time = calls[c].w0
            /\ functions = calls[c].f0
            /\ calls[c].reqs = <<>>
            /\ IF kind = "function" /\ calls[c].stage = "validate"
               THEN SystemMessageGet = SafeSubstitute(DEFAULT_SYSTEM_MESSAGE)
               ELSE SystemMessageGet = sm_op.arg

\* the function-calling generator fails with a validation error: "S" is lost
C29_Witness ==
    \E c \in Slots :
        /\ kind = "function"
        /\ FailedBeforeNetwork(c)
        /\ calls[c].error = "ValidationError"
        /\ sm_op = SmOp("call", "S")
        /\ SystemMessageGet = DEFAULT_SYSTEM_MESSAGE

\* the tool declarations are missing: "S" is kept
C29_WitnessKept ==
    \E c \in Slots :
        /\ kind = "function"
        /\ FailedBeforeNetwork(c)
        /\ calls[c].error = "AttributeError"
        /\ sm_op = SmOp("call", "S")
        /\ SystemMessageGet = "S"

\* the sleeps after a 503 or 429 that call c has completed
ThrottledSleepsDone(c) ==
    Cardinality({i \in 1..Len(calls[c].log) : calls[c].log[i].code \in {503, 429}})
    - (IF calls[c].pc = "sleep" /\ calls[c].log[Len(calls[c].log)].code \in {503, 429}
       THEN 1 ELSE 0)

\* C28: a transport failure and a fatal status leave the backoff counter as
\* it is. Until a 2xx response arrives the counter of a call is its value at
\* the start of the call plus the call's completed 503/429 sleeps, also after
\* the call ended with a fatal error; it reads 0 only after a 2xx response on
\* the instance.
C28_FailuresKeepCounter ==
    /\ waiting_time = 0 => seen2xx
    /\ \A c \in Slots :
        (Len(calls[c].log) >= 1 /\ ~Returned(c)) =>
            waiting_time = calls[c].w0 + ThrottledSleepsDone(c)

\* a call ended with a fatal error after a transport failure and two
\* throttled retries: the counter keeps the two increments
C28_Witness ==
    \E c \in Slots :
        /\ calls[c].pc = "raised"
        /\ Len(calls[c].log) = 4
        /\ Fatal(calls[c].log[4])
        /\ \E i \in 1..3 : calls[c].log[i].exc = "NetworkError"
        /\ waiting_time = calls[c].w0 + 2

\* a later call started with the counter a failed call had left, and its 2xx
\* response reset it
C28_WitnessLater ==
    \E c \in Slots :
        /\ Returned(c)
        /\ Len(calls[c].log) = 1
        /\ calls[c].w0 = 3
        /\ waiting_time = 0

\* the 503/429 sleeps completed by calls a and b together
SleepsDoneTogether == ThrottledSleepsDone("a") + ThrottledSleepsDone("b")

\* C30: under every interleaving of the calls at their awaits the backoff
\* counter is a natural number and no increment is lost: k completed 503/429
\* sleeps, of whichever calls, with no 2xx response in between raise it by
\* exactly k.
C30_NoIncrementLost ==
    /\ waiting_time \in Nat
    /\ ~seen2xx => waiting_time = InitialWaitingTime + SleepsDoneTogether
    /\ seen2xx => waiting_time = retries
    /\ retries <= SleepsDoneTogether

\* both calls were in flight together and completed throttled sleeps
C30_Witness ==
    /\ ~seen2xx
    /\ \A c \in Slots : ~calls[c].alone /\ ThrottledSleepsDone(c) >= 1
    /\ SleepsDoneTogether = 3
    /\ waiting_time = InitialWaitingTime + 3

\* one call returned and reset the counter, the other has completed two
\* throttled sleeps since
C30_WitnessAfterReset ==
    /\ seen2xx
    /\ waiting_time = 2
    /\ \E c \in Slots : Returned(c)
    /\ \E c \in Slots : InFlight(c) /\ ThrottledSleepsDone(c) >= 2

TemplateSteps ==
    <<"retrieve_context", "retrieve_history", "compose", "build", "dispatch",
      "interpret">>

\* C23: an invocation through the template method performs retrieve_context,
\* retrieve_history, the composition of the prompt, the build and validation
\* of the request, the dispatch and the interpretation in this order, each at
\* most once; no request is sent before both retrievals returned, the
\* response is interpreted only after a 2xx, and an invocation with valid
\* parameters that has ended did build and dispatch its request.
C23_TemplateStepsInOrder ==
    \A c \in Slots :
        calls[c].via = "__call__" =>
            LET steps == calls[c].steps
            IN  /\ Len(steps) <= Len(TemplateSteps)
                /\ \A i \in 1..Len(steps) : steps[i] = TemplateSteps[i]
                /\ Len(calls[c].reqs) >= 1 => Len(steps) >= 5
                /\ Len(steps) = 6 => Returned(c)
                /\ (/\ calls[c].pc \in {"done", "raised"}
                    /\ ~StopTooLong(calls[c].parameters)
                    /\ ~NOutOfRange(calls[c].parameters)
                    /\ (kind = "function" => ~IsNone(functions))) =>
                        Len(steps) >= 5

\* C21: the transport has no attempt ceiling: as long as every attempt of a
\* call was answered with a transport failure, a 503 or a 429, the call has
\* neither returned nor raised, it is awaiting a response or sleeping before
\* one more attempt.
C21_NoAttemptCeiling ==
    \A c \in Slots :
        (/\ Len(calls[c].log) >= 1
         /\ \A i \in 1..Len(calls[c].log) : Retryable(calls[c].log[i])) =>
            InFlight(c)

\* the sleep _request_url takes after the i-th outcome of call c, the counter
\* having started at the value it had when c started
RequestSleep(c, i) ==
    IF calls[c].log[i].exc = "NetworkError" THEN Some(NetworkErrorSleepMs)
    ELSE IF IsSuccess(calls[c].log[i].code) THEN None
    ELSE StatusErrorSleep(calls[c].log[i].code, AloneCounter(c, i))

\* C24: the streaming transport applies the retry policy of _request_url:
\* for the outcomes it has met, from the counter it started with, it has
\* slept what _request_url sleeps, and until a 2xx response the counter is
\* where _request_url leaves it, the start value plus the completed 503/429
\* sleeps.
C24_StreamSameBackoff ==
    \A c \in Slots :
        calls[c].via = "_stream_url" =>
            /\ \A i \in 1..Len(calls[c].log) :
                   calls[c].log[i].sleep = RequestSleep(c, i)
            /\ (/\ Len(calls[c].log) >= 1
                /\ \A i \in 1..Len(calls[c].log) : ~IsSuccess(calls[c].log[i].code)) =>
                   waiting_time = calls[c].w0 + ThrottledSleepsDone(c)

\* C25: every item the streaming transport has delivered is a text chunk of
\* the response, the chunks in their order, also after a retry.
C25_StreamDeliversChunks ==
    \A c \in Slots :
        calls[c].via = "_stream_url" =>
            \A i \in 1..Len(calls[c].items) : calls[c].items[i].t = "chunk"

\* C26: an instance has acquired exactly one HTTP client, and once close()
\* has completed none of the clients it acquired is open.
C26_OneClientReleased ==
    /\ Len(http.clients) = 1
    /\ http.closed => \A i \in 1..Len(http.clients) : http.clients[i] = "closed"

\* no call is awaiting a response or sleeping
NoneInFlight == \A c \in Slots : ~InFlight(c)
\* the call that ended most recently returned a result
LatestReturned == \E c \in Slots : calls[c].latest /\ Returned(c)

\* C31: under every interleaving of the calls on one instance, when no call
\* is in flight and the call that ended most recently returned a result, the
\* backoff counter is 0; a counter that is not 0 after a 2xx response is the
\* number of 503/429 sleeps that ended since that response, those of calls
\* that were sleeping when the counter was reset.
C31_IdleAfterSuccessIsZero ==
    /\ (NoneInFlight /\ LatestReturned) => waiting_time = 0
    /\ (seen2xx /\ waiting_time # 0) =>
           /\ waiting_time = retries
           /\ (\E c \in Slots : InFlight(c)) \/ ~LatestReturned

\* both calls have ended after running interleaved: the one that ended last
\* slept after a 429 it received at the initial counter and then returned
C31_Witness ==
    /\ NoneInFlight
    /\ \A c \in Slots : Returned(c)
    /\ \E c \in Slots :
          /\ calls[c].latest
          /\ ~calls[c].alone
          /\ Len(calls[c].log) = 2
          /\ calls[c].log[1].code = 429
          /\ calls[c].log[1].sleep = Some(Pow15Ms(InitialWaitingTime))
    /\ waiting_time = 0

\* one call returned and reset the counter while the other slept after a 429
\* received before the reset; the sleeper woke, incremented the counter and
\* awaits its next response: the most recent response is the 2xx, the counter
\* is 1
C31_WitnessInFlight ==
    /\ waiting_time = 1
    /\ \E c, d \in Slots :
          /\ Returned(d) /\ calls[d].latest /\ Len(calls[d].log) = 1
          /\ calls[c].pc = "request"
          /\ Len(calls[c].log) = 1
          /\ calls[c].log[1].code = 429
          /\ calls[c].log[1].sleep = Some(Pow15Ms(InitialWaitingTime))

\* the sleeper of the state above was then answered 400: no call is in
\* flight, the call that ended last raised, and the counter is still 1
C31_WitnessRaisedLast ==
    /\ NoneInFlight
    /\ waiting_time = 1
    /\ \E c, d \in Slots :
          /\ Returned(d) /\ ~calls[d].latest
          /\ calls[c].latest /\ calls[c].pc = "raised"

====
